---- MODULE Spec2Model ----
(***************************************************************************)
(* Catalog back end of indoElectric: the category tree, the products       *)
(* anchored to it, the attribute schema / value tables and the search      *)
(* view.  Tables are sets of rows; a row is a record holding the columns   *)
(* of models.py that the operations read or write.  Strings are sequences  *)
(* of one-character strings, so that slugify, icontains and startswith     *)
(* are computed and not assumed.                                           *)
(***************************************************************************)
EXTENDS Integers, Sequences, FiniteSets, TLC

VARIABLES
    categories,     \* Category table: rows [id, parent, name, slug, is_active]
    products,       \* Product table: rows [id, category, brand, name, slug, is_active, created_at]
    brands,         \* Brand table: rows [id, name, is_active]
    catAttrs,       \* CategoryAttribute table
    pavs,           \* ProductAttributeValue table
    nextId,         \* next primary key of each table (AutoField)
    last,           \* the request handled last: [op, errors, note]
    response,       \* the body of the read request answered last
    inflight        \* the insert requests being handled side by side

vars == <<categories, products, brands, catAttrs, pavs, nextId, last, response, inflight>>

----------------------------------------------------------------------------
(* Bounds of the model *)

MaxCategories == 4      \* category rows ever created
MaxProducts == 1        \* product rows ever created
MaxAttributes == 3      \* rows of the Attribute table
MaxValueRows == 2       \* ProductAttributeValue rows ever created
MaxAssignRows == 2      \* CategoryAttribute rows ever created

\* parent hops followed before a walk is declared endless: more than any
\* acyclic chain of the table has
MaxWalk == MaxCategories + 2

NULL == 0               \* a null foreign key

----------------------------------------------------------------------------
(* Strings *)

Chars == {"a", "b", "A", "B", " ", "-", ">"}

\* str.lower() on one character
LowerChar(ch) ==
    CASE ch = "A" -> "a"
      [] ch = "B" -> "b"
      [] OTHER -> ch

Lower(s) == [i \in 1..Len(s) |-> LowerChar(s[i])]

\* s[k:] == t[:len] tests
StartsWith(s, t) ==
    /\ Len(t) <= Len(s)
    /\ \A i \in 1..Len(t) : s[i] = t[i]

Contains(s, t) ==
    \E k \in 0..(Len(s) - Len(t)) : \A i \in 1..Len(t) : s[k + i] = t[i]

\* the ORM's __icontains lookup
IContains(s, t) == Contains(Lower(s), Lower(t))

\* the ORM's order_by on a text column: lexicographic, "a" < "b" < others
CharRank(ch) ==
    CASE ch = " " -> 0
      [] ch = "-" -> 1
      [] ch = ">" -> 2
      [] ch = "A" -> 3
      [] ch = "B" -> 4
      [] ch = "a" -> 5
      [] ch = "b" -> 6

RECURSIVE StrLess(_, _)
StrLess(s, t) ==
    IF t = <<>> THEN FALSE
    ELSE IF s = <<>> THEN TRUE
    ELSE IF CharRank(Head(s)) # CharRank(Head(t))
         THEN CharRank(Head(s)) < CharRank(Head(t))
         ELSE StrLess(Tail(s), Tail(t))

\* django.utils.text.slugify on the alphabet Chars: lower-case, drop what is
\* neither a word character, a space nor a hyphen, turn runs of spaces and
\* hyphens into one hyphen, strip hyphens at both ends
RECURSIVE SlugBody(_, _)
SlugBody(s, pendingHyphen) ==
    IF s = <<>> THEN <<>>
    ELSE LET ch == LowerChar(Head(s)) IN
         IF ch \in {" ", "-"} THEN SlugBody(Tail(s), TRUE)
         ELSE IF ch = ">" THEN SlugBody(Tail(s), pendingHyphen)
         ELSE (IF pendingHyphen THEN <<"-">> ELSE <<>>)
                \o <<ch>> \o SlugBody(Tail(s), FALSE)

RECURSIVE StripLeadingHyphen(_)
StripLeadingHyphen(s) ==
    IF s # <<>> /\ Head(s) = "-" THEN StripLeadingHyphen(Tail(s)) ELSE s

slugify(s) == StripLeadingHyphen(SlugBody(s, FALSE))

----------------------------------------------------------------------------
(* Category table *)

CategoryIds == {c.id : c \in categories}

RowOf(table, i) == CHOOSE r \in table : r.id = i

Category(i) == RowOf(categories, i)

\* obj.parent_id read in the table tbl
ParentIn(tbl, i) == RowOf(tbl, i).parent

ParentOf(i) == ParentIn(categories, i)

\* the reverse relation "children"
Children(i) == {r.id : r \in {c \in categories : c.parent = i}}

\* the number of parent hops from i to a root of tbl, counted as get_full_path
\* walks them; more than MaxWalk when the walk does not end (a cycle)
RECURSIVE HopsFrom(_, _, _)
HopsFrom(tbl, i, k) ==
    IF ParentIn(tbl, i) = NULL THEN k
    ELSE IF k > MaxWalk THEN k
    ELSE HopsFrom(tbl, ParentIn(tbl, i), k + 1)

HopsIn(tbl, i) == HopsFrom(tbl, i, 0)

Hops(i) == HopsIn(categories, i)

WalkEnds(tbl, i) == HopsIn(tbl, i) <= MaxWalk

\* the categories met on the parent walk that starts at i (i included)
RECURSIVE WalkFrom(_, _, _)
WalkFrom(tbl, i, k) ==
    IF i = NULL \/ k > MaxWalk THEN {}
    ELSE {i} \cup WalkFrom(tbl, ParentIn(tbl, i), k + 1)

\* Category.save: the slug defaults to slugify(name); the column is unique
SavedSlug(nm, sl) == IF sl = <<>> THEN slugify(nm) ELSE sl

SlugTaken(sl, self) == \E c \in categories : c.id # self /\ c.slug = sl

\* the table after category `target` (NULL: a new row with the next id) is
\* saved with the given columns
SavedCategories(target, p, nm, sl, act) ==
    LET i == IF target = NULL THEN nextId.category ELSE target
        row == [id |-> i, parent |-> p, name |-> nm,
                slug |-> SavedSlug(nm, sl), is_active |-> act]
    IN {c \in categories : c.id # i} \cup {row}

\* what a parent assignment would do to the tree, recorded with the request
ParentNote(target, p, after) ==
    (IF p # NULL /\ target # NULL /\ target \in WalkFrom(categories, p, 0)
        THEN {"cycle"} ELSE {})
    \cup
    (IF \E c \in after :
            /\ WalkEnds(after, c.id) /\ HopsIn(after, c.id) > 2
            /\ c.id \in CategoryIds => Hops(c.id) <= 2
        THEN {"depth3"} ELSE {})
    \cup
    (IF p # NULL /\ (\E x \in products : x.category = p)
        THEN {"parentHasProducts"} ELSE {})

----------------------------------------------------------------------------
(* Attribute table *)

\* Attribute.DATA_TYPES
DATA_TYPES == <<"text", "number", "bool", "choice">>

AttributeIds == 1..MaxAttributes

\* the Attribute rows of a run: row i is declared with the i-th data type
data_type(a) == DATA_TYPES[((a - 1) % Len(DATA_TYPES)) + 1]

\* A nullable column holds None or one value
None == {}
Some(v) == {v}

----------------------------------------------------------------------------
(* Inline formsets of the admin (TabularInline): one form per row the owner
   already has, in primary-key order, followed by at most `extra` new forms.
   A form is [cols |-> the row it submits, DELETE |-> its delete box]. *)

extra == 1

Min(S) == CHOOSE x \in S : \A y \in S : x <= y

RECURSIVE SortedIds(_)
SortedIds(S) == IF S = {} THEN <<>> ELSE <<Min(S)>> \o SortedIds(S \ {Min(S)})

OwnedRows(table, ownerCol, owner) == {r \in table : r[ownerCol] = owner}

\* the ids of the owner's rows, in primary-key order
OwnedIds(table, ownerCol, owner) ==
    SortedIds({r.id : r \in OwnedRows(table, ownerCol, owner)})

\* the batches a page can submit: editOptions[k] holds the forms that can be
\* submitted for the owner's k-th row, newOptions the forms of a new row
InlineBatches(editOptions, newOptions) ==
    LET n == Len(editOptions)
        allEdits == UNION {editOptions[k] : k \in 1..n}
        edits == {b \in [1..n -> allEdits] : \A k \in 1..n : b[k] \in editOptions[k]}
        news == UNION {[1..m -> newOptions] : m \in 0..extra}
    IN {e \o w : e \in edits, w \in news}

\* UniqueAttributeInlineFormSet.clean: the loop over self.forms with `seen`
RECURSIVE CleanFrom(_, _, _)
CleanFrom(forms, k, seen) ==
    IF k > Len(forms) THEN {}
    ELSE IF forms[k].DELETE THEN CleanFrom(forms, k + 1, seen)
    ELSE IF forms[k].cols.attribute \in seen THEN {"duplicate_attribute"}
    ELSE CleanFrom(forms, k + 1, seen \cup {forms[k].cols.attribute})

\* the loop with seen.add(attr) left out: nothing is ever seen twice
CleanWithoutSeen(forms) == {}

UniqueAttributeInlineFormSet_clean(forms) == CleanFrom(forms, 1, {})

\* a table declared without unique_together
NoUniqueTogether(table, ownerCol, row) == FALSE

\* unique_together = (owner, "attribute") as the table enforces it on a write
UniqueTogetherViolated(table, ownerCol, row) ==
    \E r \in table :
        /\ r.id # row.id
        /\ r[ownerCol] = row[ownerCol]
        /\ r.attribute = row.attribute

\* formset.save(): the forms of existing rows in order (delete, or write the
\* row), then the new rows; a write that breaks unique_together raises
\* IntegrityError.  Returns [ok, table, nid].
RECURSIVE SaveForms(_, _, _, _, _, _)
SaveForms(table, ownerCol, owner, forms, k, nid) ==
    IF k > Len(forms) THEN [ok |-> TRUE, table |-> table, nid |-> nid]
    ELSE LET f == forms[k]
             isNew == f.cols.id = NULL
             row == [f.cols EXCEPT !.id = IF isNew THEN nid ELSE @,
                                   ![ownerCol] = owner]
         IN IF f.DELETE
               THEN SaveForms({r \in table : r.id # f.cols.id},
                              ownerCol, owner, forms, k + 1, nid)
            ELSE IF UniqueTogetherViolated(table, ownerCol, row)
               THEN [ok |-> FALSE, table |-> table, nid |-> nid]
            ELSE SaveForms({r \in table : r.id # row.id} \cup {row},
                           ownerCol, owner, forms, k + 1,
                           IF isNew THEN nid + 1 ELSE nid)

\* ModelForm.validate_unique of every form that is not deleted: its row is
\* looked up in the table as stored, other primary keys only
FormUniqueErrors(table, ownerCol, owner, forms) ==
    IF \E k \in 1..Len(forms) :
          /\ ~forms[k].DELETE
          /\ UniqueTogetherViolated(table, ownerCol,
                                    [forms[k].cols EXCEPT ![ownerCol] = owner])
        THEN {"unique_together"} ELSE {}

\* two forms that are not deleted carry the same attribute
HasDuplicateAttribute(forms) ==
    \E i, j \in 1..Len(forms) :
        /\ i < j
        /\ ~forms[i].DELETE /\ ~forms[j].DELETE
        /\ forms[i].cols.attribute = forms[j].cols.attribute

----------------------------------------------------------------------------
(* ProductAttributeValue rows and forms *)

Payload(t, n, b) == [value_text |-> t, value_number |-> n, value_bool |-> b]

\* the payloads submitted in a run
PayloadInputs ==
    { Payload(Some("red"), None, None),
      Payload(None, Some(5), None),
      Payload(None, None, Some(TRUE)) }

PavRow(i, prod, a, pl) ==
    [id |-> i, product |-> prod, attribute |-> a,
     value_text |-> pl.value_text, value_number |-> pl.value_number,
     value_bool |-> pl.value_bool]

PayloadOf(row) == Payload(row.value_text, row.value_number, row.value_bool)

\* the payload column that belongs to a declared data type
KindColumn(dt) ==
    CASE dt = "number" -> "value_number"
      [] dt = "bool" -> "value_bool"
      [] OTHER -> "value_text"

\* the row populates a payload column that is not the one of its attribute
PayloadMismatch(row) ==
    \E col \in {"value_text", "value_number", "value_bool"} :
        col # KindColumn(data_type(row.attribute)) /\ row[col] # None

\* an existing row is deleted, or resubmitted with its attribute or its
\* payload as chosen
PavEditOptions(row) ==
    {[cols |-> row, DELETE |-> TRUE]}
    \cup {[cols |-> PavRow(row.id, row.product, a, PayloadOf(row)), DELETE |-> FALSE] :
            a \in AttributeIds}
    \cup {[cols |-> PavRow(row.id, row.product, row.attribute, pl), DELETE |-> FALSE] :
            pl \in PayloadInputs}

PavNewOptions ==
    {[cols |-> PavRow(NULL, NULL, a, pl), DELETE |-> FALSE] :
        a \in AttributeIds, pl \in PayloadInputs}

NewForms(forms) == {k \in 1..Len(forms) : forms[k].cols.id = NULL /\ ~forms[k].DELETE}

ValueNote(forms) ==
    (IF HasDuplicateAttribute(forms) THEN {"duplicateInBatch"} ELSE {})
    \cup
    (IF \E k \in 1..Len(forms) : ~forms[k].DELETE /\ PayloadMismatch(forms[k].cols)
        THEN {"payloadMismatch"} ELSE {})

----------------------------------------------------------------------------
(* CategoryAttribute rows and forms *)

CaRow(i, cat, a, req, so) ==
    [id |-> i, category |-> cat, attribute |-> a, is_required |-> req, sort_order |-> so]

SortOrderInputs == {0, 1}

\* an existing row is deleted, or resubmitted with its attribute or its
\* flags as chosen
CaEditOptions(row) ==
    {[cols |-> row, DELETE |-> TRUE]}
    \cup {[cols |-> CaRow(row.id, row.category, a, row.is_required, row.sort_order),
           DELETE |-> FALSE] : a \in AttributeIds}
    \cup {[cols |-> CaRow(row.id, row.category, row.attribute, req, so),
           DELETE |-> FALSE] : req \in BOOLEAN, so \in SortOrderInputs}

CaNewOptions ==
    {[cols |-> CaRow(NULL, NULL, a, req, so), DELETE |-> FALSE] :
        a \in AttributeIds, req \in BOOLEAN, so \in SortOrderInputs}

\* the pair the request inserts is already assigned
PairNote(cat, a) ==
    IF \E r \in catAttrs : r.category = cat /\ r.attribute = a
        THEN {"pairExists"} ELSE {}

AssignNote(owner, forms) ==
    IF \E k \in NewForms(forms) : PairNote(owner, forms[k].cols.attribute) # {}
        THEN {"pairExists"} ELSE {}

Answer(op, errors, note) == [op |-> op, errors |-> errors, note |-> note]

----------------------------------------------------------------------------
(* Category operations *)

AllCategoriesOffered == CategoryIds

\* CategoryAdmin.formfield_for_foreignkey: the choices of the parent field
AdminParentCandidates ==
    {c.id : c \in {r \in categories :
                     \/ r.parent = NULL
                     \/ ParentOf(r.parent) = NULL}}

\* The input names of a specification run: the i-th row created is given the
\* i-th name (names play no part in the tree operations)
CategoryNames ==
    << <<"a">>, <<"a", "b">>, <<"b">>, <<"b", "a">>, <<"A", " ", "b">>, <<"B">> >>

NameInputs(target) ==
    IF target = NULL
        THEN {CategoryNames[((nextId.category - 1) % Len(CategoryNames)) + 1]}
        ELSE {Category(target).name}

CategoryBatches(target) ==
    LET ids == OwnedIds(catAttrs, "category", target)
    IN InlineBatches([k \in 1..Len(ids) |-> CaEditOptions(RowOf(catAttrs, ids[k]))],
                     CaNewOptions)

\* Add / change a category on its admin page, CategoryAttributeInline
\* included: the parent must be one of the offered choices (or empty) and the
\* slug unique; the page is saved in one transaction
AdminSaveCategory(target, p, nm, sl, act, forms) ==
    LET i == IF target = NULL THEN nextId.category ELSE target
        after == SavedCategories(target, p, nm, sl, act)
        note == ParentNote(target, p, after) \cup AssignNote(i, forms)
        formErrors ==
            (IF p # NULL /\ p \notin AdminParentCandidates
                THEN {"invalid_choice"} ELSE {})
            \cup (IF SlugTaken(SavedSlug(nm, sl), i) THEN {"unique_slug"} ELSE {})
            \cup FormUniqueErrors(catAttrs, "category", i, forms)
        saved == SaveForms(catAttrs, "category", i, forms, 1, nextId.catAttr)
    IN /\ target = NULL => nextId.category <= MaxCategories
       /\ saved.nid <= MaxAssignRows + 1
       /\ IF formErrors # {}
             THEN /\ last' = Answer("AdminSaveCategory", formErrors, note)
                  /\ UNCHANGED <<categories, catAttrs, nextId>>
          ELSE IF ~saved.ok
             THEN /\ last' = Answer("AdminSaveCategory", {"unique_together"}, note)
                  /\ UNCHANGED <<categories, catAttrs, nextId>>
          ELSE /\ categories' = after
               /\ catAttrs' = saved.table
               /\ nextId' = [nextId EXCEPT
                                !.category = IF target = NULL THEN @ + 1 ELSE @,
                                !.catAttr = saved.nid]
               /\ last' = Answer("AdminSaveCategory", {}, note)
       /\ UNCHANGED <<products, brands, pavs, response, inflight>>

\* POST / PUT / PATCH on /api/categories/: CategorySerializer takes any
\* existing category as parent; the unique slug is the only rule
ApiSaveCategory(target, p, nm, sl, act) ==
    LET i == IF target = NULL THEN nextId.category ELSE target
        after == SavedCategories(target, p, nm, sl, act)
        note == ParentNote(target, p, after)
    IN /\ target = NULL => nextId.category <= MaxCategories
       /\ IF SlugTaken(SavedSlug(nm, sl), i)
             THEN /\ last' = Answer("ApiSaveCategory", {"unique_slug"}, note)
                  /\ UNCHANGED <<categories, nextId>>
             ELSE /\ categories' = after
                  /\ nextId' = [nextId EXCEPT
                                   !.category = IF target = NULL THEN @ + 1 ELSE @]
                  /\ last' = Answer("ApiSaveCategory", {}, note)
       /\ UNCHANGED <<products, brands, catAttrs, pavs, response, inflight>>

----------------------------------------------------------------------------
(* Level of a category *)

\* CategorySerializer.get_category_type
get_category_type(i) ==
    IF ParentOf(i) = NULL THEN "MAIN"
    ELSE IF Children(i) # {} THEN "SUB"
    ELSE "LEAF"

\* CategoryAdmin.category_level (the text of the badge)
category_level(i) ==
    IF ParentOf(i) = NULL THEN "Main"
    ELSE IF ParentOf(ParentOf(i)) = NULL THEN "Sub"
    ELSE "Sub Name"

----------------------------------------------------------------------------
(* Product operations *)

ProductIds == {x.id : x \in products}

Product(i) == RowOf(products, i)

\* ProductAdmin.formfield_for_foreignkey (and ProductAdminForm.__init__):
\* Category.objects.filter(children__isnull=True)
ProductAnchorChoices == {c.id : c \in {r \in categories : Children(r.id) = {}}}

ProductNames == << <<"a">>, <<"b">>, <<"a", "b">>, <<"b", "a">> >>

ProductNameInputs(target) ==
    IF target = NULL
        THEN {ProductNames[((nextId.product - 1) % Len(ProductNames)) + 1]}
        ELSE {Product(target).name}

ProductSlugTaken(sl, self) == \E x \in products : x.id # self /\ x.slug = sl

AnchorNote(cat) == IF Children(cat) # {} THEN {"anchorHasChildren"} ELSE {}

\* The product table after a save: created_at is set once, on insert
\* (auto_now_add), from a clock that ticks with every insert
SavedProducts(target, cat, br, nm, act) ==
    LET i == IF target = NULL THEN nextId.product ELSE target
        row == [id |-> i, category |-> cat, brand |-> br, name |-> nm,
                slug |-> slugify(nm), is_active |-> act,
                created_at |-> IF target = NULL THEN nextId.product
                                                ELSE Product(target).created_at]
    IN {x \in products : x.id # i} \cup {row}

ProductBatches(target) ==
    LET ids == OwnedIds(pavs, "product", target)
    IN InlineBatches([k \in 1..Len(ids) |-> PavEditOptions(RowOf(pavs, ids[k]))],
                     PavNewOptions)

\* Add / change a product on its admin page, ProductAttributeValueInline
\* included: the category field offers the categories without children only;
\* the formset's clean runs with the form's validation and the page is saved
\* in one transaction
AdminSaveProduct(target, cat, br, nm, act, forms) ==
    LET i == IF target = NULL THEN nextId.product ELSE target
        note == AnchorNote(cat) \cup ValueNote(forms)
        formErrors ==
            (IF cat \notin ProductAnchorChoices THEN {"invalid_choice"} ELSE {})
            \cup (IF ProductSlugTaken(slugify(nm), i) THEN {"unique_slug"} ELSE {})
            \cup FormUniqueErrors(pavs, "product", i, forms)
            \cup UniqueAttributeInlineFormSet_clean(forms)
        saved == SaveForms(pavs, "product", i, forms, 1, nextId.pav)
    IN /\ target = NULL => nextId.product <= MaxProducts
       /\ saved.nid <= MaxValueRows + 1
       /\ IF formErrors # {}
             THEN /\ last' = Answer("AdminSaveProduct", formErrors, note)
                  /\ UNCHANGED <<products, pavs, nextId>>
          ELSE IF ~saved.ok
             THEN /\ last' = Answer("AdminSaveProduct", {"IntegrityError"}, note)
                  /\ UNCHANGED <<products, pavs, nextId>>
          ELSE /\ products' = SavedProducts(target, cat, br, nm, act)
               /\ pavs' = saved.table
               /\ nextId' = [nextId EXCEPT
                                !.product = IF target = NULL THEN @ + 1 ELSE @,
                                !.pav = saved.nid]
               /\ last' = Answer("AdminSaveProduct", {}, note)
       /\ UNCHANGED <<categories, brands, catAttrs, response, inflight>>

\* POST / PUT / PATCH on /api/products/: category_id is any category
ApiSaveProduct(target, cat, br, nm, act) ==
    LET i == IF target = NULL THEN nextId.product ELSE target
    IN /\ target = NULL => nextId.product <= MaxProducts
       /\ IF ProductSlugTaken(slugify(nm), i)
             THEN /\ last' = Answer("ApiSaveProduct", {"unique_slug"}, AnchorNote(cat))
                  /\ UNCHANGED <<products, nextId>>
             ELSE /\ products' = SavedProducts(target, cat, br, nm, act)
                  /\ nextId' = [nextId EXCEPT
                                   !.product = IF target = NULL THEN @ + 1 ELSE @]
                  /\ last' = Answer("ApiSaveProduct", {}, AnchorNote(cat))
       /\ UNCHANGED <<categories, brands, catAttrs, pavs, response, inflight>>

----------------------------------------------------------------------------
(* /api/category-attributes/ and /api/product-attributes/ *)

CategoryAttributeIds == {r.id : r \in catAttrs}

ProductAttributeValueIds == {r.id : r \in pavs}

\* POST: CategoryAttributeSerializer writes category, attribute_id,
\* is_required, sort_order; unique_together turns a second row of a pair down
ApiCreateCategoryAttribute(cat, a, req, so) ==
    LET row == CaRow(nextId.catAttr, cat, a, req, so)
    IN /\ ~UniqueTogetherViolated(catAttrs, "category", row)
            => nextId.catAttr <= MaxAssignRows
       /\ IF UniqueTogetherViolated(catAttrs, "category", row)
             THEN /\ last' = Answer("ApiCreateCategoryAttribute",
                                    {"unique_together"}, PairNote(cat, a))
                  /\ UNCHANGED <<catAttrs, nextId>>
             ELSE /\ catAttrs' = catAttrs \cup {row}
                  /\ nextId' = [nextId EXCEPT !.catAttr = @ + 1]
                  /\ last' = Answer("ApiCreateCategoryAttribute", {}, PairNote(cat, a))
       /\ UNCHANGED <<categories, products, brands, pavs, response, inflight>>

\* PUT / PATCH on one assignment
ApiUpdateCategoryAttribute(i, cat, a, req, so) ==
    LET row == CaRow(i, cat, a, req, so)
    IN /\ i \in CategoryAttributeIds
       /\ IF UniqueTogetherViolated(catAttrs, "category", row)
             THEN /\ last' = Answer("ApiUpdateCategoryAttribute", {"unique_together"}, {})
                  /\ UNCHANGED catAttrs
             ELSE /\ catAttrs' = {r \in catAttrs : r.id # i} \cup {row}
                  /\ last' = Answer("ApiUpdateCategoryAttribute", {}, {})
       /\ UNCHANGED <<categories, products, brands, pavs, nextId, response, inflight>>

\* DELETE on one assignment
ApiDeleteCategoryAttribute(i) ==
    /\ i \in CategoryAttributeIds
    /\ catAttrs' = {r \in catAttrs : r.id # i}
    /\ last' = Answer("ApiDeleteCategoryAttribute", {}, {})
    /\ UNCHANGED <<categories, products, brands, pavs, nextId, response, inflight>>

\* POST: ProductAttributeValueSerializer has no product field and a read-only
\* attribute, so the row it builds has neither and the table (NOT NULL
\* foreign keys) refuses it
ApiCreateProductAttributeValue(pl) ==
    LET row == PavRow(nextId.pav, NULL, NULL, pl)
    IN /\ IF row.product = NULL \/ row.attribute = NULL
             THEN /\ last' = Answer("ApiCreateProductAttributeValue",
                                    {"IntegrityError"}, {})
                  /\ UNCHANGED <<pavs, nextId>>
             ELSE /\ pavs' = pavs \cup {row}
                  /\ nextId' = [nextId EXCEPT !.pav = @ + 1]
                  /\ last' = Answer("ApiCreateProductAttributeValue", {}, {})
       /\ UNCHANGED <<categories, products, brands, catAttrs, response, inflight>>

\* PUT / PATCH on one value: the three payload columns are written as sent
ApiUpdateProductAttributeValue(i, pl) ==
    /\ i \in ProductAttributeValueIds
    /\ LET old == RowOf(pavs, i)
           row == PavRow(i, old.product, old.attribute, pl)
       IN /\ pavs' = {r \in pavs : r.id # i} \cup {row}
          /\ last' = Answer("ApiUpdateProductAttributeValue", {},
                            IF PayloadMismatch(row) THEN {"payloadMismatch"} ELSE {})
    /\ UNCHANGED <<categories, products, brands, catAttrs, nextId, response, inflight>>

\* DELETE on one value
ApiDeleteProductAttributeValue(i) ==
    /\ i \in ProductAttributeValueIds
    /\ pavs' = {r \in pavs : r.id # i}
    /\ last' = Answer("ApiDeleteProductAttributeValue", {}, {})
    /\ UNCHANGED <<categories, products, brands, catAttrs, nextId, response, inflight>>

\* ProductAttributeValueSerializer.get_value: the payload column the "value"
\* field is read from, and what it holds
get_value(row) ==
    IF row.value_text \notin {None, Some("")}
    THEN [column |-> "value_text", value |-> row.value_text]
    ELSE IF row.value_number # None
    THEN [column |-> "value_number", value |-> row.value_number]
    ELSE IF row.value_bool # None
    THEN [column |-> "value_bool", value |-> row.value_bool]
    ELSE [column |-> "none", value |-> None]

\* GET on one value
ApiRetrieveProductAttributeValue(i) ==
    /\ i \in ProductAttributeValueIds
    /\ response' = [kind |-> "value", row |-> RowOf(pavs, i),
                    value |-> get_value(RowOf(pavs, i))]
    /\ UNCHANGED <<categories, products, brands, catAttrs, pavs, nextId, last, inflight>>

----------------------------------------------------------------------------
(* The catalog administration as a state machine *)

FirstIds == [category |-> 1, product |-> 1, brand |-> 1, catAttr |-> 1, pav |-> 1]

Idle == Answer("none", {}, {})

NoResponse == [kind |-> "none"]

Requests == {1, 2}

NoInsert == [stage |-> "idle", table |-> "none", owner |-> NULL, attribute |-> NULL,
             outcome |-> "none"]

NoInserts == [r \in Requests |-> NoInsert]

Init ==
    /\ categories = {}
    /\ products = {}
    /\ brands = {}
    /\ catAttrs = {}
    /\ pavs = {}
    /\ nextId = FirstIds
    /\ last = Idle
    /\ response = NoResponse
    /\ inflight = NoInserts

\* Tree and anchor requests; the inline formsets are submitted as shown
UntouchedForms(table, ownerCol, owner) ==
    LET ids == OwnedIds(table, ownerCol, owner)
    IN [k \in 1..Len(ids) |-> [cols |-> RowOf(table, ids[k]), DELETE |-> FALSE]]

Next ==
    \/ \E target \in CategoryIds \cup {NULL}, p \in CategoryIds \cup {NULL} :
         \E nm \in NameInputs(target) :
            AdminSaveCategory(target, p, nm, <<>>, TRUE,
                              UntouchedForms(catAttrs, "category", target))
    \/ \E target \in CategoryIds \cup {NULL}, p \in CategoryIds \cup {NULL} :
         \E nm \in NameInputs(target) :
            ApiSaveCategory(target, p, nm, <<>>, TRUE)
    \/ \E target \in ProductIds \cup {NULL}, cat \in CategoryIds :
         \E nm \in ProductNameInputs(target) :
            AdminSaveProduct(target, cat, NULL, nm, TRUE,
                             UntouchedForms(pavs, "product", target))
    \/ \E target \in ProductIds \cup {NULL}, cat \in CategoryIds :
         \E nm \in ProductNameInputs(target) :
            ApiSaveProduct(target, cat, NULL, nm, TRUE)

Spec == Init /\ [][Next]_vars

----------------------------------------------------------------------------
(* The attribute schema and the attribute values, over a catalog that the
   requests above have built: a root, its child, two grandchildren, and two
   products on the grandchildren *)

SeedCategory(i, p) ==
    [id |-> i, parent |-> p, name |-> CategoryNames[i],
     slug |-> slugify(CategoryNames[i]), is_active |-> TRUE]

SeedCategories ==
    {SeedCategory(1, NULL), SeedCategory(2, 1), SeedCategory(3, 2), SeedCategory(4, 2)}

SeedProduct(i, cat) ==
    [id |-> i, category |-> cat, brand |-> NULL, name |-> ProductNames[i],
     slug |-> slugify(ProductNames[i]), is_active |-> TRUE, created_at |-> i]

SeedProducts == {SeedProduct(1, 3), SeedProduct(2, 4)}

InitSeeded ==
    /\ categories = SeedCategories
    /\ products = SeedProducts
    /\ brands = {}
    /\ catAttrs = {}
    /\ pavs = {}
    /\ nextId = [FirstIds EXCEPT !.category = 5, !.product = 3]
    /\ last = Idle
    /\ response = NoResponse
    /\ inflight = NoInserts

\* the categories that take attribute assignments in a run
AssignCategories == {3, 4}

NextAssign ==
    \/ \E target \in AssignCategories :
         \E forms \in CategoryBatches(target) :
            AdminSaveCategory(target, Category(target).parent, Category(target).name,
                              Category(target).slug, TRUE, forms)
    \/ \E cat \in AssignCategories, a \in AttributeIds,
          req \in BOOLEAN, so \in SortOrderInputs :
            ApiCreateCategoryAttribute(cat, a, req, so)
    \/ \E i \in CategoryAttributeIds, cat \in AssignCategories, a \in AttributeIds,
          req \in BOOLEAN, so \in SortOrderInputs :
            ApiUpdateCategoryAttribute(i, cat, a, req, so)
    \/ \E i \in CategoryAttributeIds : ApiDeleteCategoryAttribute(i)

SpecAssign == InitSeeded /\ [][NextAssign]_vars

NextValues ==
    \/ \E target \in ProductIds :
         \E forms \in ProductBatches(target) :
            AdminSaveProduct(target, Product(target).category, NULL,
                             Product(target).name, TRUE, forms)
    \/ \E pl \in PayloadInputs : ApiCreateProductAttributeValue(pl)
    \/ \E i \in ProductAttributeValueIds, pl \in PayloadInputs :
            ApiUpdateProductAttributeValue(i, pl)
    \/ \E i \in ProductAttributeValueIds : ApiDeleteProductAttributeValue(i)

SpecValues == InitSeeded /\ [][NextValues]_vars

(* Reading stored values: every row the write paths can store (no write path
   looks at the payload, so each column holds null or any value of its type)
   for at most one attribute per seeded product. *)

StoredPayloads ==
    {Payload(t, n, b) : t \in {None, Some(""), Some("red")},
                        n \in {None, Some(5)},
                        b \in {None, Some(TRUE), Some(FALSE)}}

InitValues ==
    /\ categories = SeedCategories
    /\ products = SeedProducts
    /\ brands = {}
    /\ catAttrs = {}
    /\ \E owners \in SUBSET {p.id : p \in SeedProducts} :
         \E a \in [owners -> AttributeIds], pl \in [owners -> StoredPayloads] :
            pavs = {PavRow(i, i, a[i], pl[i]) : i \in owners}
    /\ nextId = [FirstIds EXCEPT !.category = 5, !.product = 3, !.pav = 3]
    /\ last = Idle
    /\ response = NoResponse
    /\ inflight = NoInserts

NextRead == \E i \in ProductAttributeValueIds : ApiRetrieveProductAttributeValue(i)

SpecRead == InitValues /\ [][NextRead]_vars

----------------------------------------------------------------------------
(* Deletion: on_delete of the foreign keys, as Django's deletion collector
   applies it when a viewset's destroy or the admin's delete view calls
   delete() on a row. *)

\* the rows gathered through Category.parent (on_delete=CASCADE), starting
\* from the rows in doomed
CollectSelfOnly(doomed) == doomed

RECURSIVE Collect(_)
Collect(doomed) ==
    LET more == {c.id : c \in {r \in categories : r.parent \in doomed}} \ doomed
    IN IF more = {} THEN doomed ELSE Collect(doomed \cup more)

\* Product.category is on_delete=PROTECT: the products that stop the delete
Protecting(doomed) == {p.id : p \in {x \in products : x.category \in doomed}}

\* DELETE /api/categories/<c>/
ApiDeleteCategory(c) ==
    LET doomed == Collect({c})
        note == (IF Protecting({c}) # {} THEN {"productOnCategory"} ELSE {})
                \cup (IF Protecting(doomed \ {c}) # {} THEN {"productBelow"} ELSE {})
                \cup (IF doomed # {c} THEN {"hasDescendants"} ELSE {})
    IN /\ c \in CategoryIds
       /\ IF Protecting(doomed) # {}
             THEN /\ last' = Answer("ApiDeleteCategory", {"ProtectedError"}, note)
                  /\ UNCHANGED <<categories, catAttrs>>
             ELSE /\ categories' = {r \in categories : r.id \notin doomed}
                  /\ catAttrs' = {r \in catAttrs : r.category \notin doomed}
                  /\ last' = Answer("ApiDeleteCategory", {}, note)
       /\ UNCHANGED <<products, brands, pavs, nextId, response, inflight>>

\* DELETE /api/brands/<b>/: Product.brand is on_delete=SET_NULL
ApiDeleteBrand(b) ==
    /\ b \in {r.id : r \in brands}
    /\ brands' = {r \in brands : r.id # b}
    /\ products' = {IF p.brand = b THEN [p EXCEPT !.brand = NULL] ELSE p : p \in products}
    /\ last' = Answer("ApiDeleteBrand", {}, {})
    /\ UNCHANGED <<categories, catAttrs, pavs, nextId, response, inflight>>

\* DELETE /api/products/<i>/: ProductAttributeValue.product is on_delete=CASCADE
ApiDeleteProduct(i) ==
    /\ i \in ProductIds
    /\ products' = {p \in products : p.id # i}
    /\ pavs' = {r \in pavs : r.product # i}
    /\ last' = Answer("ApiDeleteProduct", {}, {})
    /\ UNCHANGED <<categories, brands, catAttrs, nextId, response, inflight>>

(* Creates and deletes over the catalogs the write paths can leave behind:
   any parent column (the API takes every existing category as parent), an
   assignment of attribute 1 on every category, and at most MaxProducts
   products, each on any category, with or without the one brand. *)

DeleteBrand == [id |-> 1, name |-> <<"B">>, is_active |-> TRUE]

InitDelete ==
    /\ \E n \in 1..MaxCategories :
         \E par \in [1..n -> 0..n] :
            /\ categories = {SeedCategory(i, par[i]) : i \in 1..n}
            /\ catAttrs = {CaRow(i, i, 1, FALSE, 0) : i \in 1..n}
            /\ \E k \in 0..MaxProducts :
                 \E cat \in [1..k -> 1..n], br \in [1..k -> {NULL, 1}] :
                    /\ products = {[SeedProduct(i, cat[i]) EXCEPT !.brand = br[i]] : i \in 1..k}
                    /\ nextId = [FirstIds EXCEPT !.category = n + 1, !.product = k + 1,
                                                 !.catAttr = n + 1, !.brand = 2]
    /\ brands = {DeleteBrand}
    /\ pavs = {}
    /\ last = Idle
    /\ response = NoResponse
    /\ inflight = NoInserts

NextDelete ==
    \/ \E c \in CategoryIds : ApiDeleteCategory(c)
    \/ \E b \in {r.id : r \in brands} : ApiDeleteBrand(b)
    \/ \E i \in ProductIds : ApiDeleteProduct(i)
    \/ \E p \in CategoryIds \cup {NULL} :
         \E nm \in NameInputs(NULL) : ApiSaveCategory(NULL, p, nm, <<>>, TRUE)
    \/ \E cat \in CategoryIds, br \in {r.id : r \in brands} \cup {NULL} :
         \E nm \in ProductNameInputs(NULL) : ApiSaveProduct(NULL, cat, br, nm, TRUE)

SpecDelete == InitDelete /\ [][NextDelete]_vars

----------------------------------------------------------------------------
(* Inserts handled side by side.  A request that adds a CategoryAttribute
   (POST /api/category-attributes/, or the inline of the category page) or a
   ProductAttributeValue (the inline of the product page) is two steps with
   other requests in between: the validation reads the table for the pair
   (the serializer's unique-together validator, the inline form's
   validate_unique), and the save sends the INSERT, which the unique index
   that unique_together declares accepts or refuses as one step. *)

InsertTables == {"catAttrs", "pavs"}

OwnerColumn(table) == IF table = "catAttrs" THEN "category" ELSE "product"

TableRows(table) == IF table = "catAttrs" THEN catAttrs ELSE pavs

\* the row a request inserts, under the id the sequence holds when asked
InsertedRow(req) ==
    IF req.table = "catAttrs"
    THEN CaRow(nextId.catAttr, req.owner, req.attribute, FALSE, 0)
    ELSE PavRow(nextId.pav, req.owner, req.attribute, Payload(None, None, None))

InsertOwners(table) == IF table = "catAttrs" THEN AssignCategories ELSE ProductIds

\* is_valid(): the request is turned down when the pair is stored already
ValidateInsert(r, table, owner, a) ==
    LET req == [stage |-> "validated", table |-> table, owner |-> owner,
                attribute |-> a, outcome |-> "none"]
    IN /\ inflight[r].stage = "idle"
       /\ owner \in InsertOwners(table)
       /\ inflight' = [inflight EXCEPT ![r] =
             IF UniqueTogetherViolated(TableRows(table), OwnerColumn(table), InsertedRow(req))
             THEN [req EXCEPT !.stage = "done", !.outcome = "rejected"]
             ELSE req]
       /\ UNCHANGED <<categories, products, brands, catAttrs, pavs, nextId, last, response>>

\* save(): the INSERT, under the unique index of the table
WriteInsert(r) ==
    LET req == inflight[r]
        row == InsertedRow(req)
        refused == UniqueTogetherViolated(TableRows(req.table), OwnerColumn(req.table), row)
    IN /\ req.stage = "validated"
       /\ inflight' = [inflight EXCEPT ![r] =
             [req EXCEPT !.stage = "done",
                         !.outcome = IF refused THEN "IntegrityError" ELSE "created"]]
       /\ catAttrs' = IF req.table = "catAttrs" /\ ~refused
                         THEN catAttrs \cup {row} ELSE catAttrs
       /\ pavs' = IF req.table = "pavs" /\ ~refused THEN pavs \cup {row} ELSE pavs
       /\ nextId' = IF refused THEN nextId
                    ELSE IF req.table = "catAttrs"
                    THEN [nextId EXCEPT !.catAttr = @ + 1]
                    ELSE [nextId EXCEPT !.pav = @ + 1]
       /\ UNCHANGED <<categories, products, brands, last, response>>

NextRace ==
    \/ \E r \in Requests, table \in InsertTables, owner \in 1..MaxCategories,
          a \in AttributeIds : ValidateInsert(r, table, owner, a)
    \/ \E r \in Requests : WriteInsert(r)

SpecRace == InitSeeded /\ [][NextRace]_vars

----------------------------------------------------------------------------
(* SearchAPIView: GET /api/search/.  The view reads two columns of Category,
   category_type and full_path, that models.py does not declare;
   CategorySerializer computes fields of these names.  The view is modelled
   over both builds: with Category as models.py declares it, where the
   lookups on the two columns raise, and with the two columns holding what
   the serializer computes. *)

MaxSearchCategories == 4    \* categories of a searched catalog
MaxSearchProducts == 2      \* products of a searched catalog
MaxLimit == 2               \* largest products_limit / categories_limit / brands_limit

LeafSlugsCap == 12          \* the [:12] slice of leaf_slugs
FetchFactor == 2            \* the [: categories_limit * 2] slice of the category query

Brand(i) == RowOf(brands, i)

RECURSIVE FullPathWalk(_, _)
FullPathWalk(i, k) ==
    IF ParentOf(i) = NULL \/ k = 0 THEN Category(i).name
    ELSE FullPathWalk(ParentOf(i), k - 1) \o <<" ", ">", " ">> \o Category(i).name

\* the names from the root down to the category, joined with " > "
get_full_path(i) == FullPathWalk(i, MaxWalk)

RECURSIVE LStrip(_)
LStrip(s) == IF s # <<>> /\ Head(s) = " " THEN LStrip(Tail(s)) ELSE s

Reverse(s) == [i \in 1..Len(s) |-> s[Len(s) + 1 - i]]

NoStrip(s) == s

\* str.strip()
strip(s) == Reverse(LStrip(Reverse(LStrip(s))))

\* seq[:n]
Take(s, n) == SubSeq(s, 1, Min({n, Len(s)}))

RECURSIVE Distinct(_)
Distinct(s) ==
    IF s = <<>> THEN <<>>
    ELSE LET rest == Distinct(SubSeq(s, 1, Len(s) - 1))
             x == s[Len(s)]
         IN IF \E k \in 1..Len(rest) : rest[k] = x THEN rest ELSE Append(rest, x)

\* the rows every expansion selects: is_active=True, category_type="LEAF"
ActiveLeafRows ==
    {r \in categories : r.is_active /\ get_category_type(r.id) = "LEAF"}

\* SearchAPIView.get_leaf_descendants, as the set of ids of its queryset
get_leaf_descendants(c) ==
    IF get_category_type(c) = "LEAF"
    THEN {r.id : r \in {x \in categories : x.id = c /\ x.is_active}}
    ELSE {r.id : r \in {x \in ActiveLeafRows :
                          StartsWith(get_full_path(x.id), Category(c).name)}}

\* the leaf_slugs of a MAIN or SUB entry; the queryset has no order_by and
\* the rows come in primary-key order
LeafSlugRows(c) ==
    {r.id : r \in {x \in ActiveLeafRows :
                     IContains(get_full_path(x.id), Category(c).name)}}

leaf_slugs(c) ==
    LET ids == SortedIds(LeafSlugRows(c))
    IN Take(Distinct([k \in 1..Len(ids) |-> Category(ids[k]).slug]), LeafSlugsCap)

\* order_by("parent_id", "name"): where the NULL parents sort is the
\* database's choice; two rows of one parent and one name come in id order
ParentKey(c, nullsFirst) ==
    IF c.parent # NULL THEN c.parent
    ELSE IF nullsFirst THEN NULL ELSE nextId.category

CategoryBefore(c, d, nullsFirst) ==
    LET pc == ParentKey(c, nullsFirst)
        pd == ParentKey(d, nullsFirst)
    IN \/ pc < pd
       \/ pc = pd /\ StrLess(c.name, d.name)
       \/ pc = pd /\ c.name = d.name /\ c.id < d.id

RECURSIVE OrderCategories(_, _)
OrderCategories(rows, nullsFirst) ==
    IF rows = {} THEN <<>>
    ELSE LET first == CHOOSE c \in rows :
                        \A d \in rows \ {c} : CategoryBefore(c, d, nullsFirst)
         IN <<first>> \o OrderCategories(rows \ {first}, nullsFirst)

\* order_by("-created_at")
RECURSIVE OrderProducts(_)
OrderProducts(rows) ==
    IF rows = {} THEN <<>>
    ELSE LET first == CHOOSE p \in rows :
                        \A x \in rows \ {p} : p.created_at > x.created_at
         IN <<first>> \o OrderProducts(rows \ {first})

\* order_by("name"); Brand.name is unique
RECURSIVE OrderBrands(_)
OrderBrands(rows) ==
    IF rows = {} THEN <<>>
    ELSE LET first == CHOOSE b \in rows :
                        \A x \in rows \ {b} : StrLess(b.name, x.name)
         IN <<first>> \o OrderBrands(rows \ {first})

ProductMatches(p, q) ==
    \/ IContains(p.name, q)
    \/ IContains(p.slug, q)
    \/ IContains(Category(p.category).name, q)
    \/ IContains(get_full_path(p.category), q)
    \/ p.brand # NULL /\ IContains(Brand(p.brand).name, q)

SearchProducts(q, products_limit) ==
    LET rows == OrderProducts({p \in products : p.is_active /\ ProductMatches(p, q)})
    IN Take([k \in 1..Len(rows) |->
               [id |-> rows[k].id, brand |-> rows[k].brand,
                leaf_category |-> rows[k].category]], products_limit)

SearchBrands(q, brands_limit) ==
    LET rows == OrderBrands({b \in brands : b.is_active /\ IContains(b.name, q)})
    IN Take([k \in 1..Len(rows) |-> rows[k].id], brands_limit)

CategoryMatches(c, q) ==
    \/ IContains(c.name, q)
    \/ IContains(c.slug, q)
    \/ IContains(get_full_path(c.id), q)

\* the rows of category_qs, in order
FetchedCategories(q, categories_limit, nullsFirst) ==
    Take(OrderCategories({c \in categories : c.is_active /\ CategoryMatches(c, q)},
                         nullsFirst),
         categories_limit * FetchFactor)

CategoryItem(c) ==
    LET type == get_category_type(c.id)
        redirects == type \in {"MAIN", "SUB"}
    IN [id |-> c.id, category_type |-> type, has_leaf_slugs |-> redirects,
        leaf_slugs |-> IF redirects THEN leaf_slugs(c.id) ELSE <<>>]

\* one of main_categories / sub_categories / leaf_categories, sliced
CategoryGroup(fetched, types, categories_limit) ==
    LET items == [k \in 1..Len(fetched) |-> CategoryItem(fetched[k])]
        OfGroup(item) == item.category_type \in types
    IN Take(SelectSeq(items, OfGroup), categories_limit)

EmptySearch ==
    [kind |-> "search", status |-> 200, query |-> <<>>, products |-> <<>>,
     brands |-> <<>>, main |-> <<>>, sub |-> <<>>, leaf |-> <<>>]

SearchResult(q, products_limit, categories_limit, brands_limit, nullsFirst) ==
    LET fetched == FetchedCategories(q, categories_limit, nullsFirst)
    IN [kind |-> "search", status |-> 200, query |-> q,
        products |-> SearchProducts(q, products_limit),
        brands |-> SearchBrands(q, brands_limit),
        main |-> CategoryGroup(fetched, {"MAIN"}, categories_limit),
        sub |-> CategoryGroup(fetched, {"SUB"}, categories_limit),
        leaf |-> CategoryGroup(fetched, {"LEAF"}, categories_limit)]

\* an exception leaving the view: the response is Django's error page
Raised(exception, q) ==
    [kind |-> "error", status |-> 500, exception |-> exception, query |-> q]

Queries == { <<>>, <<" ">>, <<"a">>, <<" ", "B">> }

Limits == 1..MaxLimit

SearchAPIView_get(raw, products_limit, categories_limit, brands_limit, declaredColumnsOnly, nullsFirst) ==
    LET q == strip(raw) IN
    /\ response' =
         IF q = <<>> THEN EmptySearch
         ELSE IF declaredColumnsOnly THEN Raised("FieldError", q)
         ELSE SearchResult(q, products_limit, categories_limit, brands_limit,
                           nullsFirst)
    /\ UNCHANGED <<categories, products, brands, catAttrs, pavs, nextId, last, inflight>>

\* a call of get_leaf_descendants on a stored category
ExpandLeaves(c, declaredColumnsOnly) ==
    /\ c \in CategoryIds
    /\ response' =
         IF declaredColumnsOnly THEN Raised("AttributeError", <<>>)
         ELSE [kind |-> "leaves", category |-> c, leaves |-> get_leaf_descendants(c)]
    /\ UNCHANGED <<categories, products, brands, catAttrs, pavs, nextId, last, inflight>>

(* The searched catalogs: every forest of at most MaxSearchCategories
   categories and at most three levels, with distinct names, a parent
   created before its children and at most one inactive category; and the
   seeded tree carrying products and one brand. *)

SearchNames == { <<"a">>, <<"a", "b">>, <<"b">>, <<"B", " ", "a">> }

Forests(n) ==
    {par \in [1..n -> 0..n] :
        /\ \A i \in 1..n : par[i] < i
        /\ \A i \in 1..n :
             par[i] # NULL => (par[par[i]] = NULL \/ par[par[par[i]]] = NULL)}

Namings(n) ==
    {nm \in [1..n -> SearchNames] : \A i, j \in 1..n : nm[i] = nm[j] => i = j}

Activities(n) ==
    {act \in [1..n -> BOOLEAN] : \A i, j \in 1..n : (~act[i] /\ ~act[j]) => i = j}

InitCategoryCatalog ==
    \E n \in 0..MaxSearchCategories :
      \E par \in Forests(n), nm \in Namings(n), act \in Activities(n) :
        /\ categories = {[id |-> i, parent |-> par[i], name |-> nm[i],
                          slug |-> slugify(nm[i]), is_active |-> act[i]] : i \in 1..n}
        /\ products = {}
        /\ brands = {}
        /\ nextId = [FirstIds EXCEPT !.category = n + 1]

SearchBrand == <<"B">>

InitProductCatalog ==
    \E n \in 1..MaxSearchProducts :
      \E cat \in [1..n -> {3, 4}], br \in [1..n -> {NULL, 1}],
         act \in [1..n -> BOOLEAN], brandActive \in BOOLEAN :
        /\ categories = SeedCategories
        /\ products = {[id |-> i, category |-> cat[i], brand |-> br[i],
                        name |-> ProductNames[i], slug |-> slugify(ProductNames[i]),
                        is_active |-> act[i], created_at |-> i] : i \in 1..n}
        /\ brands = {[id |-> 1, name |-> SearchBrand, is_active |-> brandActive]}
        /\ nextId = [FirstIds EXCEPT !.category = 5, !.product = n + 1]

InitSearch ==
    /\ InitCategoryCatalog \/ InitProductCatalog
    /\ catAttrs = {}
    /\ pavs = {}
    /\ last = Idle
    /\ response = NoResponse
    /\ inflight = NoInserts

\* the requests: a request whose limits and row order the view does not get
\* to read (empty query, or a lookup that raises) is drawn once
SearchRequests ==
    {r \in [raw : Queries, products_limit : Limits, categories_limit : Limits,
            brands_limit : Limits, declaredColumnsOnly : BOOLEAN,
            nullsFirst : BOOLEAN] :
        (strip(r.raw) = <<>> \/ r.declaredColumnsOnly) =>
            /\ r.products_limit = 1
            /\ r.categories_limit = 1
            /\ r.brands_limit = 1
            /\ r.nullsFirst}

NextSearch ==
    \/ \E r \in SearchRequests :
         SearchAPIView_get(r.raw, r.products_limit, r.categories_limit,
                           r.brands_limit, r.declaredColumnsOnly, r.nullsFirst)
    \/ \E c \in CategoryIds, declaredColumnsOnly \in BOOLEAN :
         ExpandLeaves(c, declaredColumnsOnly)

SpecSearch == InitSearch /\ [][NextSearch]_vars

(* Searches with no query: q absent ("" by default), empty or blank, with
   every limit, on both builds and both row orders, over the same catalogs. *)

BlankQueries == { <<>>, <<" ">>, <<" ", " ">> }

\* the row order of the database is drawn once: no query is made
BlankRequests ==
    [raw : BlankQueries, products_limit : Limits, categories_limit : Limits,
     brands_limit : Limits, declaredColumnsOnly : BOOLEAN, nullsFirst : {TRUE}]

NextBlankSearch ==
    \E r \in BlankRequests :
       SearchAPIView_get(r.raw, r.products_limit, r.categories_limit,
                         r.brands_limit, r.declaredColumnsOnly, r.nullsFirst)

SpecBlankSearch == InitSearch /\ [][NextBlankSearch]_vars

----------------------------------------------------------------------------
(* Claims about the category tree and the product anchors *)

CategoryOps == {"AdminSaveCategory", "ApiSaveCategory"}

\* the request handled last was turned down and wrote nothing
Rejected == last.errors # {}

\* C1: after any sequence of category creations and parent assignments no
\* category is more than 2 parent hops from a root, and every parent
\* assignment that would put a category at depth 3 is rejected.
C1_DepthCapEnforced ==
    /\ \A c \in categories : WalkEnds(categories, c.id) => Hops(c.id) <= 2
    /\ (last.op \in CategoryOps /\ "depth3" \in last.note) => Rejected

\* C2: the parent relation stays acyclic: the parent walk from every
\* category ends at a root, and making a category its own parent or the
\* child of one of its descendants is rejected.
C2_ParentWalkEnds ==
    /\ \A c \in categories : WalkEnds(categories, c.id)
    /\ (last.op \in CategoryOps /\ "cycle" \in last.note) => Rejected

\* C3: in every reachable state the category of every product has no
\* children.
C3_ProductAnchorsChildless ==
    \A x \in products : Children(x.category) = {}

\* the level of the data model: a function of the parent chain alone
LevelByChain(i) ==
    IF ParentOf(i) = NULL THEN "MAIN"
    ELSE IF ParentOf(ParentOf(i)) = NULL THEN "SUB"
    ELSE "LEAF"

BadgeLevel(text) ==
    CASE text = "Main" -> "MAIN"
      [] text = "Sub" -> "SUB"
      [] text = "Sub Name" -> "LEAF"

\* C4: the level reported for a category is MAIN iff it has no parent, SUB
\* iff its parent has no parent, LEAF iff its parent has a parent, whether
\* or not the category has children.
C4_LevelFollowsParentChain ==
    \A c \in categories :
        /\ get_category_type(c.id) = LevelByChain(c.id)
        /\ BadgeLevel(category_level(c.id)) = LevelByChain(c.id)

----------------------------------------------------------------------------
(* Claims about the attribute values and the attribute assignments *)

\* the admin batch handled in this step held one attribute twice
DuplicateBatchStep ==
    /\ last'.op = "AdminSaveProduct"
    /\ "duplicateInBatch" \in last'.note

\* C8: at most one ProductAttributeValue exists for every product and
\* attribute, and a batch of values for one product that names an attribute
\* twice is rejected as a whole as a duplicate in the batch: no row of it is
\* stored and the stored values stay as they were.
C8_OneValuePerProductAttribute ==
    /\ [](\A r1, r2 \in pavs :
            (r1.product = r2.product /\ r1.attribute = r2.attribute) => r1.id = r2.id)
    /\ [][DuplicateBatchStep =>
            /\ "duplicate_attribute" \in last'.errors
            /\ pavs' = pavs
            /\ nextId' = nextId]_vars

\* a batch with a repeated attribute was turned down while values are stored
C8_Witness ==
    /\ last.op = "AdminSaveProduct"
    /\ "duplicateInBatch" \in last.note
    /\ "duplicate_attribute" \in last.errors
    /\ Cardinality(pavs) >= 2

\* the request handled in this step inserts a pair that is already assigned
ExistingPairStep ==
    /\ last'.op \in {"ApiCreateCategoryAttribute", "AdminSaveCategory"}
    /\ "pairExists" \in last'.note

\* C9: at most one CategoryAttribute exists for every category and
\* attribute, and an assign for a pair that already exists fails as a
\* duplicate and leaves the existing assignment as it was.
C9_OneAssignmentPerPair ==
    /\ [](\A r1, r2 \in catAttrs :
            (r1.category = r2.category /\ r1.attribute = r2.attribute) => r1.id = r2.id)
    /\ [][ExistingPairStep =>
            /\ "unique_together" \in last'.errors
            /\ catAttrs' = catAttrs
            /\ nextId' = nextId]_vars

\* a second assign of a stored pair was turned down
C9_Witness ==
    /\ last.op = "ApiCreateCategoryAttribute"
    /\ "pairExists" \in last.note
    /\ "unique_together" \in last.errors
    /\ Cardinality(catAttrs) >= 2

\* C10: a value whose payload kind differs from the declared data type of
\* its attribute is never stored: the request fails, and every stored value
\* populates the payload column of its attribute's kind only.
C10_PayloadMatchesDataType ==
    /\ \A r \in pavs : ~PayloadMismatch(r)
    /\ "payloadMismatch" \in last.note => Rejected

----------------------------------------------------------------------------
(* Claims about the search view *)

\* the categories below c: those whose parent walk passes through c
Descendants(c) == {d \in CategoryIds : d # c /\ c \in WalkFrom(categories, d, 0)}

ActiveOf(ids) == {i \in ids : Category(i).is_active}

\* the expansion by level: the category, its children, or their children
LeavesByLevel(c) ==
    CASE LevelByChain(c) = "LEAF" -> {c}
      [] LevelByChain(c) = "SUB" -> Children(c)
      [] LevelByChain(c) = "MAIN" -> UNION {Children(d) : d \in Children(c)}

BucketIds(bucket) == {bucket[k].id : k \in 1..Len(bucket)}

\* a bucket of a result holds at most limit entries and, when it holds fewer,
\* every active category matching q that the view classifies with one of types
BucketComplete(bucket, types, q, limit) ==
    /\ Len(bucket) <= limit
    /\ Len(bucket) < limit =>
         \A c \in categories :
            (c.is_active /\ CategoryMatches(c, q) /\ get_category_type(c.id) \in types)
                => c.id \in BucketIds(bucket)

LeafSlugsOfDescendants(item) ==
    /\ item.has_leaf_slugs
    /\ Len(item.leaf_slugs) <= 12
    /\ \A j, k \in 1..Len(item.leaf_slugs) :
          item.leaf_slugs[j] = item.leaf_slugs[k] => j = k
    /\ \A k \in 1..Len(item.leaf_slugs) :
          \E d \in ActiveOf(Descendants(item.id)) :
             Category(d).slug = item.leaf_slugs[k]

----------------------------------------------------------------------------
(* Claims about the values reported to clients *)

\* C11: the value reported for a stored product attribute value is the
\* payload column selected by the declared data type of its attribute
\* (value_text for text, value_number for number, value_bool for bool),
\* whatever the other payload columns hold.
C11_ValueChosenByKind ==
    response.kind = "value" =>
        LET column == KindColumn(data_type(response.row.attribute))
        IN IF response.row[column] = None
           THEN response.value.column = "none"
           ELSE response.value.column = column

\* C12: a search whose q is absent, empty or only whitespace (every search
\* of SpecBlankSearch) returns the canonical empty result: status 200, query
\* "", no products, no brands, empty main, sub and leaf lists, whatever the
\* catalog holds and whatever the three limits are; it makes no lookup on
\* the tables, so it does not raise on the build where a lookup would.
C12_BlankQueryGivesEmptyResult ==
    response # NoResponse =>
        /\ response.kind = "search"
        /\ response.status = 200
        /\ response.query = <<>>
        /\ response.products = <<>>
        /\ response.brands = <<>>
        /\ response.main = <<>>
        /\ response.sub = <<>>
        /\ response.leaf = <<>>

\* a blank search answered over a catalog with active rows in every table
C12_Witness ==
    /\ response = EmptySearch
    /\ \E c \in categories : c.is_active
    /\ \E p \in products : p.is_active
    /\ \E b \in brands : b.is_active

\* the products group of a result: only active products matching q, as many
\* as the limit allows, newest first, none left out that is newer than one
\* listed
ProductsGroupRight(group, q, limit) ==
    LET matching == {p \in products : p.is_active /\ ProductMatches(p, q)}
        listed == {group[k].id : k \in 1..Len(group)}
    IN /\ listed \subseteq {p.id : p \in matching}
       /\ Cardinality(listed) = Len(group)
       /\ Len(group) = Min({limit, Cardinality(matching)})
       /\ \A j, k \in 1..Len(group) :
             j < k => Product(group[j].id).created_at >= Product(group[k].id).created_at
       /\ \A p \in matching :
             p.id \notin listed =>
                \A k \in 1..Len(group) : p.created_at <= Product(group[k].id).created_at

\* C13: for every non-empty query and every positive products_limit the
\* search returns a result whose products group holds only active products
\* that match the query, exactly min(products_limit, number of active
\* matching products) of them, by creation time descending, no omitted
\* matching product being newer than a listed one.
C13_ProductsGroup ==
    [][\A r \in SearchRequests :
          (/\ SearchAPIView_get(r.raw, r.products_limit, r.categories_limit,
                                r.brands_limit, r.declaredColumnsOnly, r.nullsFirst)
           /\ strip(r.raw) # <<>>)
          => /\ response'.kind = "search"
             /\ ProductsGroupRight(response'.products, strip(r.raw), r.products_limit)]_vars

\* C14: when fetching a group of a search fails (on the build where the
\* lookups on the category columns raise, the products and the categories
\* fail and the brands do not), the search still returns a result: the
\* failed groups are empty lists and the other group holds what it holds
\* when nothing fails.
C14_GroupFailureIsolated ==
    [][\A r \in SearchRequests :
          (/\ SearchAPIView_get(r.raw, r.products_limit, r.categories_limit,
                                r.brands_limit, r.declaredColumnsOnly, r.nullsFirst)
           /\ strip(r.raw) # <<>>
           /\ r.declaredColumnsOnly)
          => /\ response'.kind = "search"
             /\ response'.status = 200
             /\ response'.products = <<>>
             /\ response'.main = <<>>
             /\ response'.sub = <<>>
             /\ response'.leaf = <<>>
             /\ response'.brands = SearchBrands(strip(r.raw), r.brands_limit)]_vars

----------------------------------------------------------------------------
(* Claims about deletion *)

\* C15: deleting a category is rejected, every category, product and
\* assignment staying as it is, when a product references the category or
\* one of its descendants; otherwise it removes the category, all its
\* descendants and their attribute assignments and nothing else.  Every
\* product references an existing category at all times, and deleting a
\* brand keeps its products, with no brand.
C15_DeleteProtectsAndCascades ==
    /\ [](\A p \in products : p.category \in CategoryIds)
    /\ [][\A c \in CategoryIds :
            ApiDeleteCategory(c) =>
               LET below == {c} \cup Descendants(c) IN
               IF \E p \in products : p.category \in below
               THEN /\ last'.errors # {}
                    /\ categories' = categories
                    /\ products' = products
                    /\ catAttrs' = catAttrs
               ELSE /\ last'.errors = {}
                    /\ categories' = {r \in categories : r.id \notin below}
                    /\ catAttrs' = {r \in catAttrs : r.category \notin below}
                    /\ products' = products]_vars
    /\ [][\A b \in {r.id : r \in brands} :
            ApiDeleteBrand(b) =>
               /\ {p.id : p \in products'} = ProductIds
               /\ \A p \in products :
                     /\ RowOf(products', p.id).category = p.category
                     /\ RowOf(products', p.id).brand =
                            (IF p.brand = b THEN NULL ELSE p.brand)]_vars

\* a delete turned down because of a product on a descendant only
C15_Witness ==
    /\ last.op = "ApiDeleteCategory"
    /\ "ProtectedError" \in last.errors
    /\ "productBelow" \in last.note
    /\ "productOnCategory" \notin last.note

----------------------------------------------------------------------------
(* Claims about inserts handled side by side *)

SamePair(r1, r2) ==
    /\ inflight[r1].table = inflight[r2].table
    /\ inflight[r1].owner = inflight[r2].owner
    /\ inflight[r1].attribute = inflight[r2].attribute

\* C16: however the validation and the write of two inserts of one
\* (category, attribute) or (product, attribute) pair interleave, at most
\* one of them ends created and at most one row of the pair is stored; the
\* two never both pass the duplicate check and both persist.
C16_OneInsertPerPairWins ==
    /\ \A r1, r2 \in catAttrs :
          (r1.category = r2.category /\ r1.attribute = r2.attribute) => r1.id = r2.id
    /\ \A r1, r2 \in pavs :
          (r1.product = r2.product /\ r1.attribute = r2.attribute) => r1.id = r2.id
    /\ \A r1, r2 \in Requests :
          (r1 # r2 /\ inflight[r1].stage # "idle" /\ SamePair(r1, r2))
             => ~(inflight[r1].outcome = "created" /\ inflight[r2].outcome = "created")

\* both inserts of one pair passed the validation before either wrote; one
\* was created and the other refused by the index
C16_Witness ==
    /\ SamePair(1, 2)
    /\ inflight[1].outcome = "created"
    /\ inflight[2].outcome = "IntegrityError"

----------------------------------------------------------------------------
(* Further claims about the leaf-descendant expansion and the levels *)

C18_ParentCandidatesByDepth ==
    /\ AdminParentCandidates = {c \in CategoryIds : Hops(c) <= 1}
    /\ \A c \in AdminParentCandidates : Hops(c) # 2

\* a childless category one hop below a root is offered, a category two
\* hops below a root is not
C18_Witness ==
    /\ \E c \in AdminParentCandidates : Hops(c) = 1 /\ Children(c) = {}
    /\ \E c \in CategoryIds : Hops(c) = 2 /\ c \notin AdminParentCandidates

\* C18 as first stated: the categories offered as parent are exactly those
\* that have no parent or have at least one child, and none of them is two
\* hops below a root.
C18_ParentCandidatesByChildren ==
    /\ AdminParentCandidates =
          {c \in CategoryIds : ParentOf(c) = NULL \/ Children(c) # {}}
    /\ \A c \in AdminParentCandidates : Hops(c) # 2

\* C19: the two classifiers give every category the same level: the
\* serializer's get_category_type and the admin's category_level (Main as
\* MAIN, Sub as SUB, Sub Name as LEAF) never disagree.
C19_ClassifiersAgree ==
    \A c \in CategoryIds : get_category_type(c) = BadgeLevel(category_level(c))

====
